---- MODULE Spec2Model ----
(***************************************************************************)
(* A model of seisflows/solver/base.py (class base): the conversion        *)
(* between the dictionary and the vector form of a model (merge, split),   *)
(* the source registry (getnames, getname, getpath), the setup of a worker *)
(* (setup, initialize_io_machinery), the kernel postprocessing utilities   *)
(* (combine, smooth, clip, mpirun), the model files (load, save) and the   *)
(* evaluations (eval_func, eval_grad, apply_hess) with what they export.   *)
(*                                                                         *)
(* The source is Python 2 (it uses print statements), so '/' on two ints   *)
(* is floor division.                                                      *)
(***************************************************************************)
EXTENDS Integers, Sequences, FiniteSets, TLC

(***************************************************************************)
(* Bounds of the model.                                                    *)
(***************************************************************************)
\* PAR.NPROC: the number of processors a model is partitioned over.
NPROC == 2
\* The largest length of one processor's array of one parameter.
MaxPts == 2

\* The number of workers (system.getnode() ranges over 0 .. NTASK-1).
NTASK == 2
\* The number of runs of setup started, over all workers.
MaxSetups == 3
\* The number of postprocessing calls (combine, smooth, clip) made.
MaxOps == 3

VARIABLES
    DENSITY,     \* PAR.DENSITY, read by the class body (lines 74-85)
    \* ---- the converter
    model,       \* the dictionary passed to merge
    v,           \* the vector merge returned, passed to split
    splitOut,    \* what split did: [raised, model]
    cpc,         \* "start" | "merged" | "split"
    \* ---- the source registry, one entry per worker process
    srcfiles,    \* the names of the files in the directory PATH.SPECFEM_DATA
    hasNames,    \* hasattr(self, 'names')
    names,       \* self.names
    globstar,    \* the set of paths the glob of getnames returned
    curname,     \* what the last self.getname returned
    wstatus,     \* "running", or how the process ended or what it raised
    stdout,      \* the messages the process printed
    fromCache,   \* the last self.getname made found self.names set (line 530)
    \* ---- setup
    PATH_DATA,         \* PATH.DATA is set
    PATH_MODEL_TRUE,   \* PATH.MODEL_TRUE is set
    PAR_OPTIMIZE,      \* PAR.OPTIMIZE is set
    spc,         \* where each worker is in setup
    steps,       \* what each worker's current run of setup has attempted
    nsetups,     \* the number of runs of setup started
    m_new,       \* the file PATH.OPTIMIZE/m_new: [exists, data, writer]
    seedWrites,  \* the number of times m_new was written
    \* ---- kernel postprocessing
    dirs,        \* the directories that exist
    files,       \* the files that exist: path -> content
    manifest,    \* the lines of the file kernel_paths
    last,        \* the last postprocessing call and what it did
    nops,        \* the number of postprocessing calls made
    \* ---- the binary store (save, load)
    spars,       \* self.parameters of the solver object that saves and loads
    sargs,       \* the prefix and suffix save and load are called with
    smodel,      \* the dictionary passed to save
    saved,       \* what save did: [raised, reads, copied]
    loaded,      \* what load did: [raised, model]
    stpc,        \* "start" | "saved" | "loaded"
    \* ---- the evaluations (eval_func, eval_grad, apply_hess), per worker
    eop,         \* the call the worker makes or made last: [op, export_traces]
    epc,         \* the index of the statement the worker runs next; 0: none
    elog,        \* the statements of the call that have been run
    nevals       \* the number of calls started, over all workers

convVars == <<model, v, splitOut, cpc>>
srcVars == <<srcfiles, hasNames, names, globstar, curname, wstatus, stdout,
             fromCache>>
setupVars == <<PATH_DATA, PATH_MODEL_TRUE, PAR_OPTIMIZE, spc, steps, nsetups,
               m_new, seedWrites>>
postVars == <<dirs, files, manifest, last, nops>>
storeVars == <<spars, sargs, smodel, saved, loaded, stpc>>
evalVars == <<eop, epc, elog, nevals>>
vars == <<DENSITY, convVars, srcVars, setupVars, postVars, storeVars, evalVars>>

(***************************************************************************)
(* The class body: the list of material parameters.                        *)
(***************************************************************************)
parameters ==
    IF DENSITY = "variable" THEN <<"vp", "vs", "rho">> ELSE <<"vp", "vs">>

\* range(PAR.NPROC)
Procs == 0 .. (NPROC - 1)

\* The keys a dictionary over a parameter list has.
Keys(pars) == { pars[k] : k \in 1 .. Len(pars) }

\* The index of key in the parameter list (enumerate), from 0.
IndexOf(pars, key) == (CHOOSE k \in 1 .. Len(pars) : pars[k] = key) - 1

(***************************************************************************)
(* Python slicing of a sequence, s[imin:imax] with 0 <= imin <= imax:      *)
(* both ends are clipped to the length of s.                               *)
(***************************************************************************)
Min(a, b) == IF a < b THEN a ELSE b

Slice(s, imin, imax) ==
    SubSeq(s, Min(imin, Len(s)) + 1, Min(imax, Len(s)))

(***************************************************************************)
(* A model in memory: for each parameter, a list of NPROC arrays; the      *)
(* list is modelled as a sequence indexed 1..NPROC, entry iproc+1 holding  *)
(* processor iproc's array. The value at index i of processor iproc's      *)
(* array of the k-th parameter is a number no other place holds, so that   *)
(* a value in a wrong place is seen.                                       *)
(***************************************************************************)
ValueAt(k, iproc, i) == 100 * k + 10 * iproc + i

ArrayOf(k, iproc, n) == [i \in 1 .. n |-> ValueAt(k, iproc, i)]

ModelOfLengths(pars, len) ==
    [key \in Keys(pars) |->
        [p \in 1 .. NPROC |->
            ArrayOf(IndexOf(pars, key) + 1, p - 1, len[<<key, p - 1>>])]]

\* The models merge is given. With two parameters every array has a length
\* of its own; with three (variable density) the lengths are a mesh's: one
\* for each processor, the same for every parameter.
Models(pars) ==
    IF Len(pars) = 2
    THEN { ModelOfLengths(pars, len) :
             len \in [Keys(pars) \X Procs -> 0 .. MaxPts] }
    ELSE { ModelOfLengths(pars, [kp \in Keys(pars) \X Procs |-> n[kp[2]]]) :
             n \in [Procs -> 0 .. MaxPts] }

\* Every processor's array has the same length for every parameter.
Uniform(m) ==
    \A k1, k2 \in DOMAIN m : \A p1 \in DOMAIN m[k1], p2 \in DOMAIN m[k2] :
        Len(m[k1][p1]) = Len(m[k2][p2])

(***************************************************************************)
(* merge (lines 281-288): v starts empty; for each key of the parameter    *)
(* list, for each iproc in range(NPROC), np.append(v, model[key][iproc]).  *)
(* np.append of two one-dimensional arrays is their concatenation (the     *)
(* values are converted to float64, which holds them exactly).             *)
(***************************************************************************)
RECURSIVE AppendProcs(_, _, _)
AppendProcs(acc, arrays, iproc) ==
    IF iproc >= NPROC THEN acc
    ELSE AppendProcs(acc \o arrays[iproc + 1], arrays, iproc + 1)

RECURSIVE MergeFrom(_, _, _, _)
MergeFrom(acc, pars, m, k) ==
    IF k > Len(pars) THEN acc
    ELSE MergeFrom(AppendProcs(acc, m[pars[k]], 0), pars, m, k + 1)

\* The same loops nested the other way round: processors outside, keys inside.
RECURSIVE MergeProcMajorFrom(_, _, _, _, _)
MergeProcMajorFrom(acc, pars, m, iproc, k) ==
    IF iproc >= NPROC THEN acc
    ELSE IF k > Len(pars) THEN MergeProcMajorFrom(acc, pars, m, iproc + 1, 1)
    ELSE MergeProcMajorFrom(acc \o m[pars[k]][iproc + 1], pars, m, iproc, k + 1)

merge_proc_major(pars, m) == MergeProcMajorFrom(<<>>, pars, m, 0, 1)

merge(pars, m) == MergeFrom(<<>>, pars, m, 1)

(***************************************************************************)
(* splitvec (seisflows.seistools.io): the part of v that holds parameter   *)
(* idim, cut into nproc consecutive pieces of npts values each.            *)
(***************************************************************************)
splitvec(vec, nproc, npts, idim) ==
    [p \in 1 .. nproc |->
        Slice(vec, nproc * npts * idim + npts * (p - 1),
                   nproc * npts * idim + npts * p)]

(***************************************************************************)
(* split (lines 291-301): npts = len(v)/(nproc*ndim), an integer division  *)
(* that rounds down; no test of the remainder is made and nothing is       *)
(* raised.                                                                 *)
(***************************************************************************)
split_npts(pars, vec) == Len(vec) \div (NPROC * Len(pars))

split(pars, vec) ==
    [key \in Keys(pars) |->
        splitvec(vec, NPROC, split_npts(pars, vec), IndexOf(pars, key))]

(***************************************************************************)
(* Strings whose characters the code looks at (file names, source names)   *)
(* are sequences of character codes, ordered as Python orders str: by      *)
(* code, a proper prefix before the longer string.                         *)
(***************************************************************************)
LexLess(a, b) ==
    \E i \in 1 .. (Min(Len(a), Len(b)) + 1) :
        /\ \A j \in 1 .. (i - 1) : a[j] = b[j]
        /\ \/ i > Len(a) /\ i <= Len(b)
           \/ i <= Len(a) /\ i <= Len(b) /\ a[i] < b[i]

LexLeq(a, b) == a = b \/ LexLess(a, b)

\* s.startswith(p)
StartsWith(s, p) == Len(p) <= Len(s) /\ SubSeq(s, 1, Len(p)) = p

\* The text of s after the last occurrence of character c (all of s if none).
AfterLast(s, c) ==
    LET at == { i \in 1 .. Len(s) : s[i] = c }
        cut == IF at = {} THEN 0 ELSE CHOOSE i \in at : \A j \in at : j <= i
    IN  SubSeq(s, cut + 1, Len(s))

\* unix.basename(path)
basename(path) == AfterLast(path, 47)

\* The sequences that list every element of the set S once.
Perms(S) ==
    { f \in [1 .. Cardinality(S) -> S] : \A x \in S : \E i \in DOMAIN f : f[i] = x }

\* "EVENT"
source_prefix == <<69, 86, 69, 78, 84>>

\* PATH.SPECFEM_DATA: "D"
SPECFEM_DATA == <<68>>

\* PATH.SOLVER: "S"
SOLVER == <<83>>

\* os.path.join of two parts
join(a, b) == a \o <<47>> \o b

\* EVENT_A, EVENT_B, EVENT_C, EVENT_B_AA and a file that is no source, ST.
EVENT_A == source_prefix \o <<95, 65>>
EVENT_B == source_prefix \o <<95, 66>>
EVENT_C == source_prefix \o <<95, 67>>
EVENT_B_AA == source_prefix \o <<95, 66, 95, 65, 65>>
STATIONS == <<83, 84>>

FilePool == {EVENT_A, EVENT_B, EVENT_C, EVENT_B_AA, STATIONS}

\* The source names "A", "B", "C", "AA".
NameA == <<65>>
NameB == <<66>>
NameC == <<67>>
NameAA == <<65, 65>>

\* range over system.getnode()
Workers == 0 .. (NTASK - 1)

(***************************************************************************)
(* glob(path + '/' + wildcard) with wildcard = source_prefix + '_*': the   *)
(* paths of the files of the directory whose name starts with the prefix   *)
(* and an underscore. glob returns them in no particular order.            *)
(***************************************************************************)
glob_sources(listing) ==
    { join(SPECFEM_DATA, f) :
        f \in { g \in listing : StartsWith(g, source_prefix \o <<95>>) } }

(***************************************************************************)
(* names.sort() (line 540), as an insertion sort.                          *)
(***************************************************************************)
RECURSIVE Insert(_, _)
Insert(sorted, x) ==
    IF sorted = <<>> THEN <<x>>
    ELSE IF LexLess(x, Head(sorted)) THEN <<x>> \o sorted
    ELSE <<Head(sorted)>> \o Insert(Tail(sorted), x)

RECURSIVE SortFrom(_, _)
SortFrom(sorted, rest) ==
    IF rest = <<>> THEN sorted
    ELSE SortFrom(Insert(sorted, Head(rest)), Tail(rest))

\* The list left as the loop built it.
names_unsorted(seq) == seq

names_sort(seq) == SortFrom(<<>>, seq)

\* Lines 538-539: names += [unix.basename(path).split('_')[-1]]
name_of(path) == AfterLast(basename(path), 95)

\* The names base.py binds at module level that a message can be read from
\* (line 18 imports MsgSourceInputError; line 535 reads MsgSourcInputError).
ModuleNames == {"MsgSourceInputError"}

\* getnames without the test of line 530: the directory is listed at each call.
getnames_uncached(has, nm, order) ==
    IF order = <<>>
    THEN [has |-> FALSE, names |-> nm, raised |-> "NameError", printed |-> <<>>]
    ELSE [has |-> TRUE,
          names |-> names_sort([i \in 1 .. Len(order) |-> name_of(order[i])]),
          raised |-> "none", printed |-> <<>>]

(***************************************************************************)
(* getnames (lines 527-540), given whether self.names is set, its value    *)
(* and the list the glob returns: what self.names is afterwards, what was  *)
(* raised and what was printed.                                            *)
(***************************************************************************)
getnames(has, nm, order) ==
    IF has THEN
        [has |-> TRUE, names |-> nm, raised |-> "none", printed |-> <<>>]
    ELSE IF order = <<>> THEN
        IF "MsgSourcInputError" \in ModuleNames
        THEN [has |-> FALSE, names |-> nm, raised |-> "SystemExit",
              printed |-> <<"MsgSourceInputError">>]
        ELSE [has |-> FALSE, names |-> nm, raised |-> "NameError",
              printed |-> <<>>]
    ELSE
        [has |-> TRUE,
         names |-> names_sort([i \in 1 .. Len(order) |-> name_of(order[i])]),
         raised |-> "none", printed |-> <<>>]

(***************************************************************************)
(* getname (lines 519-524) of the process with index node: getnames, then  *)
(* self.names[system.getnode()].                                           *)
(***************************************************************************)
getname(node, has, nm, order) ==
    LET r == getnames(has, nm, order)
    IN  IF r.raised # "none" THEN r @@ [value |-> <<>>]
        ELSE IF node >= Len(r.names)
        THEN [r EXCEPT !.raised = "IndexError"] @@ [value |-> <<>>]
        ELSE r @@ [value |-> r.names[node + 1]]

\* getpath (lines 543-547): join(PATH.SOLVER, self.getname)
getpath(name) == join(SOLVER, name)

(***************************************************************************)
(* The values the variables of a part hold while another part runs.        *)
(***************************************************************************)
ConvIdle ==
    /\ model = <<>>
    /\ v = <<>>
    /\ splitOut = [raised |-> "none", model |-> <<>>]
    /\ cpc = "start"

SrcStart ==
    /\ hasNames = [w \in Workers |-> FALSE]
    /\ names = [w \in Workers |-> <<>>]
    /\ globstar = [w \in Workers |-> {}]
    /\ curname = [w \in Workers |-> <<>>]
    /\ wstatus = [w \in Workers |-> "running"]
    /\ stdout = [w \in Workers |-> <<>>]
    /\ fromCache = FALSE

NoSeed == [exists |-> FALSE, data |-> <<>>, writer |-> -1]

SetupIdle ==
    /\ PATH_DATA = FALSE
    /\ PATH_MODEL_TRUE = FALSE
    /\ PAR_OPTIMIZE = FALSE
    /\ spc = [w \in Workers |-> "idle"]
    /\ steps = [w \in Workers |-> <<>>]
    /\ nsetups = 0
    /\ m_new = NoSeed
    /\ seedWrites = 0

NoCall == [op |-> "none", path |-> <<>>, args |-> <<>>, calls |-> <<>>,
           raised |-> "none", after |-> <<>>]

PostIdle ==
    /\ dirs = {}
    /\ files = <<>>
    /\ manifest = {}
    /\ last = NoCall
    /\ nops = 0

NotSaved == [raised |-> "none", reads |-> {}, copied |-> {}]

NotLoaded == [raised |-> "none", model |-> <<>>]

StoreIdle ==
    /\ spars = parameters
    /\ sargs = [prefix |-> <<>>, suffix |-> <<>>]
    /\ smodel = <<>>
    /\ saved = NotSaved
    /\ loaded = NotLoaded
    /\ stpc = "start"

NoEval == [op |-> "none", export_traces |-> FALSE]

EvalIdle ==
    /\ eop = [w \in Workers |-> NoEval]
    /\ epc = [w \in Workers |-> 0]
    /\ elog = [w \in Workers |-> <<>>]
    /\ nevals = 0

(***************************************************************************)
(* The converter: merge applied to a model, split applied to the result.   *)
(***************************************************************************)
InitConv ==
    /\ DENSITY \in {"constant", "variable"}
    /\ model \in Models(parameters)
    /\ v = <<>>
    /\ splitOut = [raised |-> "none", model |-> <<>>]
    /\ cpc = "start"
    /\ srcfiles = {} /\ SrcStart /\ SetupIdle /\ PostIdle /\ StoreIdle
    /\ EvalIdle

Merge ==
    /\ cpc = "start"
    /\ v' = merge(parameters, model)
    /\ cpc' = "merged"
    /\ UNCHANGED <<DENSITY, model, splitOut, srcVars, setupVars, postVars,
                   storeVars, evalVars>>

Split ==
    /\ cpc = "merged"
    /\ splitOut' = [raised |-> "none", model |-> split(parameters, v)]
    /\ cpc' = "split"
    /\ UNCHANGED <<DENSITY, model, v, srcVars, setupVars, postVars, storeVars,
                   evalVars>>

NextConv == Merge \/ Split

SpecConv == InitConv /\ [][NextConv]_vars

(***************************************************************************)
(* The source registry: each worker process calls self.getname, while      *)
(* source files are added to and removed from PATH.SPECFEM_DATA.           *)
(* The glob of line 533 runs, and returns the paths in some order, only    *)
(* when self.names is not set.                                             *)
(***************************************************************************)
InitSrc ==
    /\ DENSITY = "constant"
    /\ srcfiles \in SUBSET FilePool
    /\ SrcStart /\ ConvIdle /\ SetupIdle /\ PostIdle /\ StoreIdle
    /\ EvalIdle

\* What a call of self.getname by worker w does to the worker's state.
CallGetName(w, r) ==
    /\ globstar' = IF hasNames[w] THEN globstar
                   ELSE [globstar EXCEPT ![w] = glob_sources(srcfiles)]
    /\ hasNames' = [hasNames EXCEPT ![w] = r.has]
    /\ names' = [names EXCEPT ![w] = r.names]
    /\ stdout' = [stdout EXCEPT ![w] = @ \o r.printed]
    /\ fromCache' = hasNames[w]
    /\ curname' = [curname EXCEPT ![w] = r.value]
    /\ wstatus' = [wstatus EXCEPT ![w] =
                      IF r.raised = "none" THEN "running"
                      ELSE IF r.raised = "SystemExit" THEN "exited"
                      ELSE r.raised]

GetName(w) ==
    /\ wstatus[w] = "running"
    /\ \E order \in Perms(IF hasNames[w] THEN {} ELSE glob_sources(srcfiles)) :
          CallGetName(w, getname(w, hasNames[w], names[w], order))
    /\ UNCHANGED <<DENSITY, srcfiles, convVars, setupVars, postVars,
                   storeVars, evalVars>>

AddSource(f) ==
    /\ f \notin srcfiles
    /\ srcfiles' = srcfiles \cup {f}
    /\ UNCHANGED <<DENSITY, hasNames, names, globstar, curname, wstatus, stdout,
                   fromCache, convVars, setupVars, postVars, storeVars,
                   evalVars>>

RemoveSource(f) ==
    /\ f \in srcfiles
    /\ srcfiles' = srcfiles \ {f}
    /\ UNCHANGED <<DENSITY, hasNames, names, globstar, curname, wstatus, stdout,
                   fromCache, convVars, setupVars, postVars, storeVars,
                   evalVars>>

NextSrc ==
    \/ \E w \in Workers : GetName(w)
    \/ \E f \in FilePool : AddSource(f)
    \/ \E f \in FilePool : RemoveSource(f)

SpecSrc == InitSrc /\ [][NextSrc]_vars

(***************************************************************************)
(* setup (lines 115-144), run by each worker process, the runs of          *)
(* different workers interleaved. A run is cut into steps at the calls of  *)
(* the solver (generate_data, generate_mesh) and between the test and the  *)
(* write of initialize_io_machinery (lines 498-499). generate_data and     *)
(* generate_mesh are the subclass's: each is attempted and then succeeds   *)
(* or raises.                                                              *)
(***************************************************************************)
\* The model PATH.MODEL_INIT holds: one value for each processor and parameter.
ModelInit ==
    ModelOfLengths(parameters, [kp \in Keys(parameters) \X Procs |-> 1])

\* A seed file that an earlier run of the optimizer left.
PriorSeed == [exists |-> TRUE, data |-> <<0>>, writer |-> -1]

InitSetup ==
    /\ DENSITY = "constant"
    /\ srcfiles \in {{}, {EVENT_A, EVENT_B, EVENT_C, EVENT_B_AA}}
    /\ SrcStart /\ ConvIdle /\ PostIdle /\ StoreIdle
    /\ EvalIdle
    /\ PATH_DATA \in BOOLEAN
    /\ PATH_MODEL_TRUE \in BOOLEAN
    /\ PAR_OPTIMIZE \in BOOLEAN
    /\ spc = [w \in Workers |-> "idle"]
    /\ steps = [w \in Workers |-> <<>>]
    /\ nsetups = 0
    /\ m_new \in {NoSeed, PriorSeed}
    /\ seedWrites = 0

\* Line 118: unix.rm(self.getpath), the first use of self.getname.
SetupStart(w) ==
    /\ spc[w] \in {"idle", "done"}
    /\ wstatus[w] = "running"
    /\ nsetups < MaxSetups
    /\ nsetups' = nsetups + 1
    /\ \E order \in Perms(IF hasNames[w] THEN {} ELSE glob_sources(srcfiles)) :
          LET r == getname(w, hasNames[w], names[w], order)
          IN  /\ CallGetName(w, r)
              /\ spc' = [spc EXCEPT ![w] =
                           IF r.raised = "none" THEN "data" ELSE "failed"]
              /\ steps' = [steps EXCEPT ![w] =
                           IF r.raised = "none" THEN <<"rm">> ELSE <<>>]
    /\ UNCHANGED <<DENSITY, srcfiles, convVars, postVars, PATH_DATA,
                   PATH_MODEL_TRUE, PAR_OPTIMIZE, m_new, seedWrites,
                   storeVars, evalVars>>

\* Lines 125-135: the data archive is copied if PATH.DATA is set, and data
\* are generated from PATH.MODEL_TRUE otherwise, whatever PATH.MODEL_TRUE is.
setup_data_step(data, model_true) ==
    IF data THEN <<"initialize_solver_directories", "copy_data">>
    ELSE <<"generate_data">>

SetupData(w) ==
    /\ spc[w] = "data"
    /\ \E ok \in BOOLEAN :
          /\ PATH_DATA => ok
          /\ steps' = [steps EXCEPT ![w] =
                         @ \o setup_data_step(PATH_DATA, PATH_MODEL_TRUE)]
          /\ spc' = [spc EXCEPT ![w] = IF ok THEN "prep" ELSE "failed"]
          /\ wstatus' = [wstatus EXCEPT ![w] =
                           IF ok THEN @ ELSE "generate_data raised"]
    /\ UNCHANGED <<DENSITY, srcfiles, hasNames, names, globstar, curname,
                   stdout, fromCache, convVars, postVars, PATH_DATA, PATH_MODEL_TRUE,
                   PAR_OPTIMIZE, nsetups, m_new, seedWrites, storeVars,
                   evalVars>>

\* Lines 138-143: generate_mesh, then initialize_adjoint_traces.
SetupPrepare(w) ==
    /\ spc[w] = "prep"
    /\ \E ok \in BOOLEAN :
          /\ steps' = [steps EXCEPT ![w] =
                         @ \o (IF ok
                               THEN <<"generate_mesh", "initialize_adjoint_traces">>
                               ELSE <<"generate_mesh">>)]
          /\ spc' = [spc EXCEPT ![w] = IF ok THEN "io" ELSE "failed"]
          /\ wstatus' = [wstatus EXCEPT ![w] =
                           IF ok THEN @ ELSE "generate_mesh raised"]
    /\ UNCHANGED <<DENSITY, srcfiles, hasNames, names, globstar, curname,
                   stdout, fromCache, convVars, postVars, PATH_DATA, PATH_MODEL_TRUE,
                   PAR_OPTIMIZE, nsetups, m_new, seedWrites, storeVars,
                   evalVars>>

\* Lines 492-493: only the process with index 0 seeds, and only if
\* PAR.OPTIMIZE is set.
io_node_seeds(node, optimize) == node = 0 /\ optimize

\* Line 498: not exists(PATH.OPTIMIZE + '/' + 'm_new')
io_seed_always(seed) == TRUE

io_seed_missing(seed) == ~seed.exists

\* Lines 489-498: initialize_io_machinery up to the test of line 498 (the
\* assertions of lines 494-495 hold: PATH.OPTIMIZE is set and generate_mesh
\* has read PATH.MODEL_INIT).
SetupIo(w) ==
    /\ spc[w] = "io"
    /\ steps' = [steps EXCEPT ![w] = Append(@, "initialize_io_machinery")]
    /\ spc' = [spc EXCEPT ![w] =
                 IF io_node_seeds(w, PAR_OPTIMIZE) /\ io_seed_missing(m_new)
                 THEN "save" ELSE "done"]
    /\ UNCHANGED <<DENSITY, srcVars, convVars, postVars, PATH_DATA,
                   PATH_MODEL_TRUE, PAR_OPTIMIZE, nsetups, m_new, seedWrites,
                   storeVars, evalVars>>

\* Line 499: savenpy(PATH.OPTIMIZE + '/' + 'm_new', self.merge(model))
SetupSave(w) ==
    /\ spc[w] = "save"
    /\ m_new' = [exists |-> TRUE, data |-> merge(parameters, ModelInit),
                 writer |-> w]
    /\ seedWrites' = seedWrites + 1
    /\ steps' = [steps EXCEPT ![w] = Append(@, "savenpy")]
    /\ spc' = [spc EXCEPT ![w] = "done"]
    /\ UNCHANGED <<DENSITY, srcVars, convVars, postVars, PATH_DATA,
                   PATH_MODEL_TRUE, PAR_OPTIMIZE, nsetups, storeVars,
                   evalVars>>

NextSetup ==
    \E w \in Workers :
        \/ SetupStart(w)
        \/ SetupData(w)
        \/ SetupPrepare(w)
        \/ SetupIo(w)
        \/ SetupSave(w)

SpecSetup == InitSetup /\ [][NextSetup]_vars

(***************************************************************************)
(* The file system the postprocessing works on. A path is a sequence of    *)
(* the pieces the code puts together ("/" is one piece, a suffix such as   *)
(* "_smooth" or ".bin" is one piece). A file system fs is [dirs, files]:   *)
(* the set of the paths of the directories, and the function from each     *)
(* file, [dir, name] (the path of its directory and its name in it), to    *)
(* its content. unix.* are the wrappers of seisflows.tools.unix, which     *)
(* behave as the POSIX commands of the same names.                         *)
(***************************************************************************)
pjoin(p, name) == p \o <<"/">> \o name

EndsWith(s, suf) ==
    Len(suf) <= Len(s) /\ SubSeq(s, Len(s) - Len(suf) + 1, Len(s)) = suf

\* The directory d is an entry of the directory p itself.
IsSubdir(p, d) ==
    /\ Len(d) > Len(p) + 1
    /\ SubSeq(d, 1, Len(p) + 1) = p \o <<"/">>
    /\ \A i \in (Len(p) + 2) .. Len(d) : d[i] # "/"

\* The files of the directory p.
FilesIn(fs, p) == { e \in DOMAIN fs.files : e.dir = p }

\* exists(path)
exists(fs, p) ==
    p \in fs.dirs \/ \E e \in DOMAIN fs.files : pjoin(e.dir, e.name) = p

\* unix.ls(path): the names of the entries of the directory.
unix_ls(fs, p) ==
    { SubSeq(d, Len(p) + 2, Len(d)) : d \in { x \in fs.dirs : IsSubdir(p, x) } }
        \cup { e.name : e \in FilesIn(fs, p) }

\* unix.mkdir(dir): the directory is made if it is not there.
unix_mkdir(fs, p) == [fs EXCEPT !.dirs = @ \cup {p}]

\* glob(src + '/*' + name + '.bin'): the entries of src whose name ends with
\* name + '.bin' (no directory of the model has such a name).
glob_bin(fs, src, name) ==
    { e \in FilesIn(fs, src) : EndsWith(e.name, <<name, ".bin">>) }

\* glob(src + '/*'): the entries of src (its files: no directory of the
\* model that is inside another holds a suffix that rename takes out).
glob_all(fs, src) == FilesIn(fs, src)

\* unix.mv(paths, dst): each file goes into the directory dst under its
\* own name, replacing a file of that name.
unix_mv(fs, paths, dst) ==
    IF paths = {} THEN fs
    ELSE [fs EXCEPT !.files =
            [q \in { [dir |-> dst, name |-> e.name] : e \in paths } |->
                @[CHOOSE e \in paths : e.name = q.name]]
            @@ [q \in (DOMAIN @) \ paths |-> @[q]]]

\* str.replace(old, ''): every piece old taken out.
RECURSIVE Without(_, _)
Without(e, old) ==
    IF e = <<>> THEN <<>>
    ELSE IF Head(e) = old THEN Without(Tail(e), old)
    ELSE <<Head(e)>> \o Without(Tail(e), old)

Holds(e, old) == \E i \in 1 .. Len(e) : e[i] = old

\* unix.rename(old, '', paths): each path that holds old is renamed (os.rename)
\* to the path without it, replacing a file of that name.
unix_rename(fs, old, paths) ==
    LET renamed == { e \in paths : Holds(e.dir, old) \/ Holds(e.name, old) }
        to(e) == [dir |-> Without(e.dir, old), name |-> Without(e.name, old)]
    IN  IF renamed = {} THEN fs
        ELSE [fs EXCEPT !.files =
                [q \in { to(e) : e \in renamed } |->
                    @[CHOOSE e \in renamed : to(e) = q]]
                @@ [q \in (DOMAIN @) \ renamed |-> @[q]]]

(***************************************************************************)
(* The kernel files and the SPECFEM tools that read and write them. The    *)
(* kernel of parameter name of processor iproc is the file                 *)
(* proc<iproc>_<name>_kernel.bin; xsmooth_sem and xclip_sem write their    *)
(* output beside it with '_smooth' or '_clip' put before '.bin'. A tool    *)
(* ends with status 0 only if it found all its input files, and writes     *)
(* nothing when it ends with another status.                               *)
(***************************************************************************)
ProcTok(iproc) == <<"proc0_", "proc1_", "proc2_", "proc3_">>[iproc + 1]

KernelFile(dir, iproc, name, suffix) ==
    [dir |-> dir,
     name |-> <<ProcTok(iproc), name, "_kernel">> \o suffix \o <<".bin">>]

WriteFiles(fs, new) == [fs EXCEPT !.files = new @@ @]

\* xcombine_sem <name>_kernel kernel_paths <outdir>
combine_inputs_ok(fs, name, lines) ==
    \A d \in lines : \A iproc \in Procs :
        KernelFile(d, iproc, name, <<>>) \in DOMAIN fs.files

xcombine_sem(fs, name, lines, outdir, exit) ==
    IF exit # 0 THEN fs
    ELSE WriteFiles(fs,
            [q \in { KernelFile(outdir, iproc, name, <<>>) : iproc \in Procs } |->
                LET iproc == CHOOSE i \in Procs :
                                 q = KernelFile(outdir, i, name, <<>>)
                IN  [par |-> name, proc |-> iproc,
                     srcs |-> UNION { fs.files[KernelFile(d, iproc, name, <<>>)].srcs :
                                        d \in lines },
                     ops |-> <<"sum">>]])

\* xsmooth_sem and xclip_sem <...> <name>_kernel <indir>/ <outdir>/
filter_inputs_ok(fs, name, indir) ==
    \A iproc \in Procs : KernelFile(indir, iproc, name, <<>>) \in DOMAIN fs.files

xfilter_sem(fs, name, indir, outdir, suffix, op, exit) ==
    IF exit # 0 THEN fs
    ELSE WriteFiles(fs,
            [q \in { KernelFile(outdir, iproc, name, <<suffix>>) : iproc \in Procs } |->
                LET iproc == CHOOSE i \in Procs :
                                 q = KernelFile(outdir, i, name, <<suffix>>)
                    c == fs.files[KernelFile(indir, iproc, name, <<>>)]
                IN  [c EXCEPT !.ops = Append(@, op)]])

(***************************************************************************)
(* mpirun (lines 509-516): subprocess.call returns the tool's exit status, *)
(* which mpirun drops: nothing is raised and nothing is returned.          *)
(***************************************************************************)
mpirun_raises(exit) == FALSE

(***************************************************************************)
(* The loop "for name in self.parameters: self.mpirun(<tool> ...)" of      *)
(* combine (317-322), smooth (333-342) and clip (367-374). exits[k] is the *)
(* exit status of the k-th invocation. st is [fs, calls, raised,           *)
(* feasible]: the file system, the invocations made, what was raised, and  *)
(* whether the exit statuses are ones the tools can end with.              *)
(***************************************************************************)
ToolName(op) ==
    CASE op = "combine" -> "xcombine_sem"
      [] op = "smooth" -> "xsmooth_sem"
      [] op = "clip" -> "xclip_sem"

ToolInputsOk(op, fs, name, ctx) ==
    IF op = "combine" THEN combine_inputs_ok(fs, name, ctx.lines)
    ELSE filter_inputs_ok(fs, name, ctx.path)

ToolRun(op, fs, name, ctx, exit) ==
    CASE op = "combine" ->
            xcombine_sem(fs, name, ctx.lines, pjoin(ctx.path, <<"sum">>), exit)
      [] op = "smooth" ->
            xfilter_sem(fs, name, ctx.path, ctx.path, "_smooth", "smooth", exit)
      [] op = "clip" ->
            xfilter_sem(fs, name, ctx.path, ctx.path, "_clip", "clip", exit)

RECURSIVE ToolLoop(_, _, _, _, _, _)
ToolLoop(op, st, pars, ctx, exits, k) ==
    IF k > Len(pars) \/ st.raised # "none" THEN st
    ELSE
        LET name == pars[k]
            ok == ToolInputsOk(op, st.fs, name, ctx)
            exit == exits[k]
        IN  ToolLoop(op,
                [fs |-> IF exit = 0 /\ ~ok THEN st.fs
                        ELSE ToolRun(op, st.fs, name, ctx, exit),
                 calls |-> Append(st.calls,
                              [tool |-> ToolName(op), name |-> name,
                               args |-> ctx.args, dir |-> ctx.path,
                               exit |-> exit]),
                 raised |-> IF mpirun_raises(exit) THEN "CalledProcessError"
                            ELSE "none",
                 feasible |-> st.feasible /\ (exit # 0 \/ ok)],
                pars, ctx, exits, k + 1)

StartLoop(fs) == [fs |-> fs, calls |-> <<>>, raised |-> "none", feasible |-> TRUE]

\* combine with the kernel-sum tool run for the first parameter only.
combine_first_parameter(fs, path, pars, exits) ==
    LET lines == { pjoin(path, d) : d \in unix_ls(fs, path) }
        st == ToolLoop("combine",
                       StartLoop(unix_mkdir(fs, pjoin(path, <<"sum">>))),
                       SubSeq(pars, 1, 1),
                       [path |-> path, lines |-> lines, args |-> <<>>],
                       exits, 1)
    IN  st @@ [manifest |-> lines, after |-> <<>>]

(***************************************************************************)
(* combine (lines 307-322): the entries of path are listed and written to  *)
(* kernel_paths, path/sum is made, and xcombine_sem runs for each          *)
(* parameter.                                                              *)
(***************************************************************************)
combine(fs, path, pars, exits) ==
    LET lines == { pjoin(path, d) : d \in unix_ls(fs, path) }
        st == ToolLoop("combine",
                       StartLoop(unix_mkdir(fs, pjoin(path, <<"sum">>))),
                       pars, [path |-> path, lines |-> lines, args |-> <<>>],
                       exits, 1)
    IN  st @@ [manifest |-> lines, after |-> <<>>]

(***************************************************************************)
(* Lines 346-354 of smooth and 376-384 of clip: the directory path + tag   *)
(* is made, for each parameter the files glob(path/*<name>.bin) are moved  *)
(* into it, and the files of path lose the tool's suffix.                  *)
(***************************************************************************)
RECURSIVE MoveInputs(_, _, _, _, _)
MoveInputs(fs, src, dst, pars, k) ==
    IF k > Len(pars) THEN fs
    ELSE MoveInputs(unix_mv(fs, glob_bin(fs, src, pars[k]), dst),
                    src, dst, pars, k + 1)

relocate(fs, path, pars, tag, suffix) ==
    LET dst == path \o <<tag>>
        moved == MoveInputs(unix_mkdir(fs, dst), path, dst, pars, 1)
    IN  unix_rename(moved, suffix, glob_all(moved, path))

(***************************************************************************)
(* smooth (lines 325-354).                                                 *)
(***************************************************************************)
smooth(fs, path, span, pars, exits) ==
    IF ~exists(fs, path)
    THEN [StartLoop(fs) EXCEPT !.raised = "AssertionError"] @@ [after |-> <<>>]
    ELSE
        LET st == ToolLoop("smooth", StartLoop(fs), pars,
                           [path |-> path, args |-> <<span, span>>], exits, 1)
        IN  IF st.raised # "none" THEN st @@ [after |-> <<>>]
            ELSE [st EXCEPT !.fs = relocate(@, path, pars, "_nosmooth", "_smooth")]
                 @@ [after |-> <<"mkdir", "mv", "rename">>]

(***************************************************************************)
(* clip (lines 357-384). Line 363 returns at once when minval is -inf or   *)
(* maxval is inf.                                                          *)
(***************************************************************************)
\* The test with the signs of the two infinities exchanged.
clip_skips_swapped(minval, maxval) == minval = "inf" \/ maxval = "-inf"

clip_skips(minval, maxval) == minval = "-inf" \/ maxval = "inf"

clip(fs, path, minval, maxval, pars, exits) ==
    IF ~exists(fs, path)
    THEN [StartLoop(fs) EXCEPT !.raised = "AssertionError"] @@ [after |-> <<>>]
    ELSE IF clip_skips(minval, maxval)
    THEN StartLoop(fs) @@ [after |-> <<>>]
    ELSE
        LET st == ToolLoop("clip", StartLoop(fs), pars,
                           [path |-> path, args |-> <<minval, maxval>>], exits, 1)
        IN  IF st.raised # "none" THEN st @@ [after |-> <<>>]
            ELSE [st EXCEPT !.fs = relocate(@, path, pars, "_noclip", "_clip")]
                 @@ [after |-> <<"mkdir", "mv", "rename">>]

(***************************************************************************)
(* The postprocessing of one iteration: the kernels of the sources A and B *)
(* are in kernels/A and kernels/B; combine(kernels), smooth(kernels/sum)   *)
(* and clip(kernels/sum) are called in any order.                          *)
(***************************************************************************)
KERNELS == <<"kernels">>

SUM == pjoin(KERNELS, <<"sum">>)

PostSources == {"A", "B"}

\* The values of span, minval and maxval the calls are made with.
Spans == {"5.0"}
MinVals == {"-inf", "-1.0"}
MaxVals == {"1.0", "inf"}

ExitCodes(pars) == [1 .. Len(pars) -> {0, 1}]

SourceKernels(pars) ==
    LET place == { <<s, iproc, k>> :
                     s \in PostSources, iproc \in Procs, k \in 1 .. Len(pars) }
        path(t) == KernelFile(pjoin(KERNELS, <<t[1]>>), t[2], pars[t[3]], <<>>)
    IN  [q \in { path(t) : t \in place } |->
            LET t == CHOOSE u \in place : path(u) = q
            IN  [par |-> pars[t[3]], proc |-> t[2], srcs |-> {t[1]},
                 ops |-> <<>>]]

InitPost ==
    /\ DENSITY \in {"constant", "variable"}
    /\ srcfiles = {} /\ SrcStart /\ ConvIdle /\ SetupIdle /\ StoreIdle
    /\ EvalIdle
    /\ dirs = {KERNELS} \cup { pjoin(KERNELS, <<s>>) : s \in PostSources }
    /\ files = SourceKernels(parameters)
    /\ manifest = {}
    /\ last = NoCall
    /\ nops = 0

\* The state after a call that did r.
PostCall(op, path, args, r) ==
    /\ r.feasible
    /\ nops < MaxOps
    /\ nops' = nops + 1
    /\ dirs' = r.fs.dirs
    /\ files' = r.fs.files
    /\ last' = [op |-> op, path |-> path, args |-> args, calls |-> r.calls,
                raised |-> r.raised, after |-> r.after]
    /\ UNCHANGED <<DENSITY, convVars, srcVars, setupVars, storeVars, evalVars>>

Combine ==
    \E exits \in ExitCodes(parameters) :
        \E r \in {combine([dirs |-> dirs, files |-> files], KERNELS,
                          parameters, exits)} :
            /\ PostCall("combine", KERNELS, <<>>, r)
            /\ manifest' = r.manifest

Smooth ==
    \E span \in Spans, exits \in ExitCodes(parameters) :
        \E r \in {smooth([dirs |-> dirs, files |-> files], SUM, span,
                         parameters, exits)} :
            /\ PostCall("smooth", SUM, <<span>>, r)
            /\ UNCHANGED manifest

Clip ==
    \E minval \in MinVals, maxval \in MaxVals, exits \in ExitCodes(parameters) :
        \E r \in {clip([dirs |-> dirs, files |-> files], SUM, minval, maxval,
                       parameters, exits)} :
            /\ PostCall("clip", SUM, <<minval, maxval>>, r)
            /\ UNCHANGED manifest

NextPost == Combine \/ Smooth \/ Clip

SpecPost == InitPost /\ [][NextPost]_vars

(***************************************************************************)
(* The binary files of a model. loadbypar, savebin and copybin are those   *)
(* of seisflows.seistools.io: the array of parameter par of processor      *)
(* iproc is the file proc<iproc>_<par>.bin of the directory, par being     *)
(* prefix + key + suffix; savebin writes the file, copybin copies it from  *)
(* one directory into another and fails if it is not there, loadbypar      *)
(* reads the files of the parameters asked for and fails if one is not     *)
(* there. A prefix, a key and a suffix are sequences of pieces, the empty  *)
(* string being the empty sequence.                                        *)
(***************************************************************************)
ParName(prefix, key, suffix) == prefix \o <<key>> \o suffix

BinFile(dir, iproc, par) ==
    [dir |-> dir, name |-> <<ProcTok(iproc)>> \o par \o <<".bin">>]

savebin(fs, arr, path, iproc, par) ==
    WriteFiles(fs, [q \in {BinFile(path, iproc, par)} |-> arr])

copybin_ok(fs, src, iproc, par) == BinFile(src, iproc, par) \in DOMAIN fs.files

copybin(fs, src, dst, iproc, par) ==
    WriteFiles(fs, [q \in {BinFile(dst, iproc, par)} |->
                      fs.files[BinFile(src, iproc, par)]])

loadbypar_ok(fs, path, pars, iproc, prefix, suffix) ==
    \A k \in 1 .. Len(pars) :
        BinFile(path, iproc, ParName(prefix, pars[k], suffix)) \in DOMAIN fs.files

(***************************************************************************)
(* load (lines 228-248): for each processor the files of self.parameters   *)
(* are read and appended to the lists of the model. (minmax and verbose    *)
(* only write a report.)                                                   *)
(***************************************************************************)
load(fs, path, pars, prefix, suffix) ==
    IF \A iproc \in Procs : loadbypar_ok(fs, path, pars, iproc, prefix, suffix)
    THEN [raised |-> "none",
          model |-> [key \in Keys(pars) |->
                       [p \in 1 .. NPROC |->
                           fs.files[BinFile(path, p - 1,
                                            ParName(prefix, key, suffix))]]]]
    ELSE [raised |-> "IOError", model |-> <<>>]

(***************************************************************************)
(* save (lines 251-278): the directory is made; then, for each processor,  *)
(* 'vp' and 'vs' are written from the model if they are in                 *)
(* self.parameters and copied from PATH.OUTPUT/model_init if not, both     *)
(* under the name prefix+key+suffix; 'rho' is written under the name       *)
(* prefix+'rho'+suffix if it is in self.parameters and copied under the    *)
(* name 'rho' if not.                                                      *)
(***************************************************************************)
\* PATH.OUTPUT + '/' + 'model_init'
MODEL_INIT_OUT == <<"O", "/", "model_init">>

\* The keys in the order the body of the loop over iproc handles them.
SaveKeys == <<"vp", "vs", "rho">>

\* The test with its result taken to be true for every key.
save_from_model_always(key, pars) == TRUE

\* Lines 266 and 273: key in self.parameters
save_from_model(key, pars) == key \in Keys(pars)

\* Lines 267, 271, 274 and 278: the name the file is written or copied under.
save_par(key, pars, prefix, suffix) ==
    IF key = "rho" /\ ~save_from_model(key, pars) THEN <<"rho">>
    ELSE ParName(prefix, key, suffix)

\* st is [fs, raised, reads, copied]: the file system, what was raised, the
\* entries (key, iproc) of the model that were read, and the files (key,
\* iproc) that were copied.
RECURSIVE SaveFrom(_, _, _, _, _, _, _)
SaveFrom(st, path, m, pars, prefix, suffix, k) ==
    IF k > NPROC * Len(SaveKeys) \/ st.raised # "none" THEN st
    ELSE
        LET iproc == (k - 1) \div Len(SaveKeys)
            key == SaveKeys[((k - 1) % Len(SaveKeys)) + 1]
            par == save_par(key, pars, prefix, suffix)
        IN  SaveFrom(
                IF save_from_model(key, pars)
                THEN [st EXCEPT !.fs = savebin(@, m[key][iproc + 1], path, iproc, par),
                                !.reads = @ \cup {<<key, iproc>>}]
                ELSE IF copybin_ok(st.fs, MODEL_INIT_OUT, iproc, par)
                THEN [st EXCEPT !.fs = copybin(@, MODEL_INIT_OUT, path, iproc, par),
                                !.copied = @ \cup {<<key, iproc>>}]
                ELSE [st EXCEPT !.raised = "IOError"],
                path, m, pars, prefix, suffix, k + 1)

save(fs, path, m, pars, prefix, suffix) ==
    SaveFrom([fs |-> unix_mkdir(fs, path), raised |-> "none", reads |-> {},
              copied |-> {}],
             path, m, pars, prefix, suffix, 1)

(***************************************************************************)
(* The store: a model is saved to a directory and loaded from it with the  *)
(* same prefix and suffix, by a solver whose parameter list is that of the *)
(* class body, with or without 'vs' (line 62: for acoustic simulations     *)
(* include only 'vp'). The dictionary saved holds an array for each of     *)
(* 'vp', 'vs' and 'rho'. The reference model holds the files vp, vs and    *)
(* rho of each processor and may hold them under the prefix and suffix of  *)
(* the call as well; its values are negative, those of the dictionary      *)
(* positive.                                                               *)
(***************************************************************************)
STORE_PATH == <<"M">>

ClassParameters ==
    { base \o (IF DENSITY = "variable" THEN <<"rho">> ELSE <<>>) :
        base \in {<<"vp">>, <<"vp", "vs">>} }

Prefixes == {<<>>, <<"pre_">>}

Suffixes == {<<>>, <<"_suf">>}

StoredModels ==
    { ModelOfLengths(SaveKeys, [kp \in Keys(SaveKeys) \X Procs |-> n[kp[2]]]) :
        n \in [Procs -> 1 .. MaxPts] }

RefArray(key, iproc) == <<0 - ValueAt(IndexOf(SaveKeys, key) + 1, iproc, 1)>>

\* The reference model with, for each pair (key, par) given, the file par
\* holding the array of key.
ReferenceModel(named) ==
    LET place == { <<t[1], t[2], iproc>> : t \in named, iproc \in Procs }
        file(t) == BinFile(MODEL_INIT_OUT, t[3], t[2])
    IN  [q \in { file(t) : t \in place } |->
            LET t == CHOOSE u \in place : file(u) = q
            IN  RefArray(t[1], t[3])]

PlainNames == { <<key, <<key>>>> : key \in Keys(SaveKeys) }

TaggedNames(prefix, suffix) ==
    { <<key, ParName(prefix, key, suffix)>> : key \in Keys(SaveKeys) }

InitStore ==
    /\ DENSITY \in {"constant", "variable"}
    /\ srcfiles = {} /\ SrcStart /\ ConvIdle /\ SetupIdle /\ EvalIdle
    /\ spars \in ClassParameters
    /\ sargs \in [prefix : Prefixes, suffix : Suffixes]
    /\ smodel \in StoredModels
    /\ saved = NotSaved
    /\ loaded = NotLoaded
    /\ stpc = "start"
    /\ dirs = {MODEL_INIT_OUT}
    /\ \E tagged \in BOOLEAN :
          files = ReferenceModel(
                      PlainNames \cup
                      (IF tagged THEN TaggedNames(sargs.prefix, sargs.suffix)
                       ELSE {}))
    /\ manifest = {}
    /\ last = NoCall
    /\ nops = 0

Save ==
    /\ stpc = "start"
    /\ \E r \in {save([dirs |-> dirs, files |-> files], STORE_PATH, smodel,
                      spars, sargs.prefix, sargs.suffix)} :
          /\ dirs' = r.fs.dirs
          /\ files' = r.fs.files
          /\ saved' = [raised |-> r.raised, reads |-> r.reads,
                       copied |-> r.copied]
    /\ stpc' = "saved"
    /\ UNCHANGED <<DENSITY, convVars, srcVars, setupVars, manifest, last, nops,
                   spars, sargs, smodel, loaded, evalVars>>

Load ==
    /\ stpc = "saved"
    /\ loaded' = load([dirs |-> dirs, files |-> files], STORE_PATH, spars,
                      sargs.prefix, sargs.suffix)
    /\ stpc' = "loaded"
    /\ UNCHANGED <<DENSITY, convVars, srcVars, setupVars, postVars, spars,
                   sargs, smodel, saved, evalVars>>

NextStore == Save \/ Load

SpecStore == InitStore /\ [][NextStore]_vars

(***************************************************************************)
(* The evaluations. A source name is one piece of a path: TokenOf gives    *)
(* the piece that stands for a name of the registry. The working directory *)
(* of a source (getpath) holds traces/obs, traces/syn and traces/adj and   *)
(* the model database, made by setup. forward, adjoint, data_wildcard and  *)
(* model_databases are the subclass's: forward leaves the synthetic traces *)
(* where data_wildcard finds them, adjoint leaves one kernel file for each *)
(* parameter and processor in the model database, named with the solver's  *)
(* aliases or with the names of the parameters; each succeeds or raises.   *)
(* preprocess.prepare_eval_grad writes the residuals and the adjoint       *)
(* traces, preprocess.prepare_apply_hess the adjoint traces.               *)
(***************************************************************************)
EVENT_C_A == source_prefix \o <<95, 67, 95, 65>>

TokenOf(name) ==
    CASE name = NameA -> "A"
      [] name = NameB -> "B"
      [] name = NameC -> "C"
      [] name = NameAA -> "AA"

\* getpath, as a path of pieces
WorkDir(tok) == <<"S", "/", tok>>

\* self.model_databases
model_databases(tok) == WorkDir(tok) \o <<"/", "DATABASES_MPI">>

\* The directory of the files self.data_wildcard matches.
OutputFiles(tok) == WorkDir(tok) \o <<"/", "OUTPUT_FILES">>

\* 'traces/obs', 'traces/syn', 'traces/adj', 'traces/lcg' in the working directory
TracesDir(tok, sub) == WorkDir(tok) \o <<"/", "traces", "/", sub>>

\* The paths eval_func and eval_grad, and apply_hess, are called with.
GRAD == <<"G">>

HESS == <<"H">>

EvalPath(op) == IF op = "apply_hess" THEN HESS ELSE GRAD

OneFile(dir, name, content) == [q \in {[dir |-> dir, name |-> name]} |-> content]

\* import_model (lines 389-396): self.save(dst, self.load(src)); the node
\* only decides whether load writes its report.
import_model(fs, path, tok) ==
    LET l == load(fs, pjoin(path, <<"model">>), parameters, <<>>, <<>>)
    IN  IF l.raised # "none" THEN [fs |-> fs, raised |-> l.raised]
        ELSE LET r == save(fs, model_databases(tok), l.model, parameters,
                           <<>>, <<>>)
             IN  [fs |-> r.fs, raised |-> r.raised]

\* self.forward()
forward(fs, tok, w, op, ok) ==
    IF ~ok THEN [fs |-> fs, raised |-> "forward raised"]
    ELSE [fs |-> WriteFiles(fs, OneFile(OutputFiles(tok), <<"U", ".su">>,
                                [kind |-> "syn", by |-> w, op |-> op])),
          raised |-> "none"]

\* unix.mv(self.data_wildcard, 'traces/' + sub)
mv_traces(fs, tok, sub) ==
    [fs |-> unix_mv(fs, FilesIn(fs, OutputFiles(tok)), TracesDir(tok, sub)),
     raised |-> "none"]

\* preprocess.prepare_eval_grad(self.getpath)
prepare_eval_grad(fs, tok, w) ==
    [fs |-> WriteFiles(fs,
                OneFile(WorkDir(tok), <<"residuals">>,
                        [kind |-> "residuals", by |-> w, op |-> "eval_func"])
                @@ OneFile(TracesDir(tok, "adj"), <<"U", ".adj">>,
                           [kind |-> "adj", by |-> w, op |-> "eval_func"])),
     raised |-> "none"]

\* preprocess.prepare_apply_hess(self.getpath)
prepare_apply_hess(fs, tok, w) ==
    [fs |-> WriteFiles(fs,
                OneFile(TracesDir(tok, "adj"), <<"U", ".adj">>,
                        [kind |-> "adj", by |-> w, op |-> "apply_hess"])),
     raised |-> "none"]

\* self.adjoint(): names[k] is the name the solver gives the kernel of the
\* k-th parameter.
adjoint(fs, tok, w, names_, ok) ==
    IF ~ok THEN [fs |-> fs, raised |-> "adjoint raised"]
    ELSE
        LET place == (1 .. Len(parameters)) \X Procs
            file(t) == KernelFile(model_databases(tok), t[2], names_[t[1]], <<>>)
        IN  [fs |-> WriteFiles(fs,
                       [q \in { file(t) : t \in place } |->
                           LET t == CHOOSE u \in place : file(u) = q
                           IN  [par |-> parameters[t[1]], proc |-> t[2],
                                srcs |-> {tok}, ops |-> <<>>, by |-> w]]),
             raised |-> "none"]

\* str.replace(old, new) on the pieces of a name
Replace(e, old, new) == [i \in 1 .. Len(e) |-> IF e[i] = old THEN new ELSE e[i]]

\* unix.rename(old, new, paths)
unix_rename_to(fs, old, new, paths) ==
    LET renamed == { e \in paths : Holds(e.name, old) }
        to(e) == [dir |-> e.dir, name |-> Replace(e.name, old, new)]
    IN  IF renamed = {} THEN fs
        ELSE [fs EXCEPT !.files =
                [q \in { to(e) : e \in renamed } |->
                    @[CHOOSE e \in renamed : to(e) = q]]
                @@ [q \in (DOMAIN @) \ renamed |-> @[q]]]

\* glob(dir + '/' + '*' + alias + '*_kernel.bin')
glob_alias_kernels(fs, dir, alias) ==
    { e \in FilesIn(fs, dir) :
        Holds(e.name, alias) /\ EndsWith(e.name, <<"_kernel", ".bin">>) }

\* glob(dir + '/' + '*kernel.bin')
glob_kernels(fs, dir) ==
    { e \in FilesIn(fs, dir) : EndsWith(e.name, <<"_kernel", ".bin">>) }

\* Only the first of the two renamings of lines 413-417.
kernel_aliases_alpha_only == << <<"alpha", "vp">> >>

\* Lines 413-417: the aliases of the solver and the names they stand for.
kernel_aliases == << <<"alpha", "vp">>, <<"beta", "vs">> >>

\* The names the solver gives the kernels of the parameters when it uses
\* its aliases.
AliasOf(name) ==
    CASE name = "vp" -> "alpha"
      [] name = "vs" -> "beta"
      [] OTHER -> name

RECURSIVE RenameAliases(_, _, _)
RenameAliases(fs, dir, k) ==
    IF k > Len(kernel_aliases) THEN fs
    ELSE RenameAliases(
             unix_rename_to(fs, kernel_aliases[k][1], kernel_aliases[k][2],
                            glob_alias_kernels(fs, dir, kernel_aliases[k][1])),
             dir, k + 1)

(***************************************************************************)
(* export_kernels (lines 410-426): the alias-named kernel files of the     *)
(* model database are renamed (a glob that finds none renames none and     *)
(* raises nothing), path/kernels and path/kernels/<name> are made and the  *)
(* kernel files are moved there.                                           *)
(***************************************************************************)
KernelRoot(path) == pjoin(path, <<"kernels">>)

export_kernels(fs, path, tok) ==
    LET db == model_databases(tok)
        dst == pjoin(KernelRoot(path), <<tok>>)
        renamed == RenameAliases(fs, db, 1)
        made == unix_mkdir(unix_mkdir(renamed, KernelRoot(path)), dst)
    IN  [fs |-> unix_mv(made, glob_kernels(made, db), dst), raised |-> "none"]

\* export_residuals (lines 428-432): the file residuals of the working
\* directory becomes path/residuals/<name>.
export_residuals(fs, path, tok) ==
    LET src == [dir |-> WorkDir(tok), name |-> <<"residuals">>]
        dst == [dir |-> pjoin(path, <<"residuals">>), name |-> <<tok>>]
        made == unix_mkdir(fs, pjoin(path, <<"residuals">>))
    IN  IF src \notin DOMAIN fs.files
        THEN [fs |-> made, raised |-> "IOError"]
        ELSE [fs |-> [made EXCEPT !.files =
                         [q \in {dst} |-> @[src]]
                         @@ [q \in (DOMAIN @) \ {src} |-> @[q]]],
              raised |-> "none"]

\* export_traces (lines 434-438): the directory prefix of the working
\* directory is copied to path/traces/<name>, or into it under its own name
\* if path/traces/<name> is there already.
export_traces(fs, path, tok, sub) ==
    LET src == TracesDir(tok, sub)
        dst == pjoin(pjoin(path, <<"traces">>), <<tok>>)
        into == IF dst \in fs.dirs THEN pjoin(dst, <<sub>>) ELSE dst
        made == unix_mkdir(unix_mkdir(fs, pjoin(path, <<"traces">>)), into)
    IN  [fs |-> WriteFiles(made,
                   [q \in { [dir |-> into, name |-> e.name] :
                              e \in FilesIn(fs, src) } |->
                       fs.files[[dir |-> src, name |-> q.name]]]),
         raised |-> "none"]

(***************************************************************************)
(* The statements of eval_func (lines 168-177), eval_grad (184-190) and    *)
(* apply_hess (196-205), in the order in which they are run, after the     *)
(* unix.cd(self.getpath) each starts with.                                 *)
(***************************************************************************)
\* eval_func with the forward solver called before the model is imported.
eval_func_forward_first(export) ==
    <<"forward", "import_model", "mv_syn", "prepare_eval_grad",
      "export_residuals">>
    \o (IF export THEN <<"export_traces_syn">> ELSE <<>>)

eval_func_steps(export) ==
    <<"import_model", "forward", "mv_syn", "prepare_eval_grad",
      "export_residuals">>
    \o (IF export THEN <<"export_traces_syn">> ELSE <<>>)

eval_grad_steps(export) ==
    <<"adjoint", "export_kernels">>
    \o (IF export THEN <<"export_traces_adj">> ELSE <<>>)

\* apply_hess with the traces of its forward pass moved to 'traces/syn'.
apply_hess_into_syn ==
    <<"mkdir_lcg", "import_model", "forward", "mv_syn", "prepare_apply_hess",
      "adjoint", "export_kernels">>

apply_hess_steps ==
    <<"mkdir_lcg", "import_model", "forward", "mv_lcg", "prepare_apply_hess",
      "adjoint", "export_kernels">>

StepsOf(call) ==
    CASE call.op = "eval_func" -> eval_func_steps(call.export_traces)
      [] call.op = "eval_grad" -> eval_grad_steps(call.export_traces)
      [] call.op = "apply_hess" -> apply_hess_steps
      [] OTHER -> <<>>

\* What a statement does: ok is whether the solver succeeds, names_ the names
\* it gives the kernels.
exec(stmt, fs, w, tok, op, ok, names_) ==
    CASE stmt = "import_model" -> import_model(fs, EvalPath(op), tok)
      [] stmt = "forward" -> forward(fs, tok, w, op, ok)
      [] stmt = "mv_syn" -> mv_traces(fs, tok, "syn")
      [] stmt = "mv_lcg" -> mv_traces(fs, tok, "lcg")
      [] stmt = "mkdir_lcg" ->
            [fs |-> unix_mkdir(fs, TracesDir(tok, "lcg")), raised |-> "none"]
      [] stmt = "prepare_eval_grad" -> prepare_eval_grad(fs, tok, w)
      [] stmt = "prepare_apply_hess" -> prepare_apply_hess(fs, tok, w)
      [] stmt = "adjoint" -> adjoint(fs, tok, w, names_, ok)
      [] stmt = "export_kernels" -> export_kernels(fs, EvalPath(op), tok)
      [] stmt = "export_residuals" -> export_residuals(fs, EvalPath(op), tok)
      [] stmt = "export_traces_syn" -> export_traces(fs, EvalPath(op), tok, "syn")
      [] stmt = "export_traces_adj" -> export_traces(fs, EvalPath(op), tok, "adj")

\* The statements that call the solver.
SolverCalls == {"forward", "adjoint"}

\* The files and directories a step changed: made, rewritten or taken away
\* (a directory d is the entry [dir |-> d, name |-> <<>>]).
Written(fs, after) ==
    { e \in DOMAIN after.files :
        e \notin DOMAIN fs.files \/ after.files[e] # fs.files[e] }
    \cup (DOMAIN fs.files \ DOMAIN after.files)
    \cup { [dir |-> d, name |-> <<>>] : d \in after.dirs \ fs.dirs }

(***************************************************************************)
(* The evaluations of one iteration. The source files are EVENT_A and      *)
(* EVENT_B, or EVENT_A and EVENT_C_A; setup has made the working directory *)
(* of each source name; the model to evaluate is in G/model and H/model.   *)
(* The workflow passes the same export_traces in every call. A worker      *)
(* calls eval_func first, eval_grad next to an eval_func (the adjoint      *)
(* traces must be in place beforehand) and apply_hess next to an eval_grad *)
(* or an apply_hess. A worker that raises ends the workflow: the calls     *)
(* under way go on and no call is started. When no worker is inside a call *)
(* and every worker has exported its kernels, combine is called once on    *)
(* G/kernels, which ends the iteration.                                    *)
(***************************************************************************)
\* The number of calls of eval_func, eval_grad and apply_hess started.
MaxEvals == 4

SourceSets == {{EVENT_A, EVENT_B}, {EVENT_A, EVENT_C_A}}

SourceTokens(listing) == { TokenOf(name_of(f)) : f \in listing }

WorkTree(tok) ==
    {WorkDir(tok), model_databases(tok), OutputFiles(tok),
     TracesDir(tok, "obs"), TracesDir(tok, "syn"), TracesDir(tok, "adj")}

ModelFiles(dir) ==
    LET place == (1 .. Len(parameters)) \X Procs
        file(t) == BinFile(dir, t[2], <<parameters[t[1]]>>)
    IN  [q \in { file(t) : t \in place } |->
            LET t == CHOOSE u \in place : file(u) = q
            IN  ArrayOf(t[1], t[2], 1)]

EvalCalls ==
    [op : {"eval_func", "eval_grad", "apply_hess"}, export_traces : BOOLEAN]

\* The calls that may come next to the call a worker made last.
MayFollow(prev, call) ==
    /\ call.export_traces = prev.export_traces
    /\ call.op = "eval_grad" => prev.op = "eval_func"
    /\ call.op = "apply_hess" => prev.op \in {"eval_grad", "apply_hess"}

InitEval ==
    /\ DENSITY = "constant"
    /\ srcfiles \in SourceSets
    /\ SrcStart /\ ConvIdle /\ SetupIdle /\ StoreIdle
    /\ \E export \in BOOLEAN :
          eop = [w \in Workers |-> [op |-> "none", export_traces |-> export]]
    /\ epc = [w \in Workers |-> 0]
    /\ elog = [w \in Workers |-> <<>>]
    /\ nevals = 0
    /\ dirs = UNION { WorkTree(tok) : tok \in SourceTokens(srcfiles) }
                \cup {MODEL_INIT_OUT, GRAD, HESS, pjoin(GRAD, <<"model">>),
                      pjoin(HESS, <<"model">>)}
    /\ files = ModelFiles(pjoin(GRAD, <<"model">>))
                 @@ ModelFiles(pjoin(HESS, <<"model">>))
                 @@ ReferenceModel(PlainNames)
    /\ manifest = {}
    /\ last = NoCall
    /\ nops = 0

\* The adjoint traces of an eval_func of the source are in place.
AdjointTracesReady(tok) ==
    \E e \in DOMAIN files :
        e.dir = TracesDir(tok, "adj") /\ files[e].op = "eval_func"

\* A worker calls eval_func, eval_grad or apply_hess: unix.cd(self.getpath),
\* the first use of self.getname.
EvalStart(w) ==
    /\ epc[w] = 0
    /\ \A u \in Workers : wstatus[u] = "running"
    /\ nops = 0
    /\ nevals < MaxEvals
    /\ nevals' = nevals + 1
    /\ \E call \in EvalCalls :
       \E order \in Perms(IF hasNames[w] THEN {} ELSE glob_sources(srcfiles)) :
          LET r == getname(w, hasNames[w], names[w], order)
          IN  /\ MayFollow(eop[w], call)
              /\ CallGetName(w, r)
              /\ (r.raised = "none" /\ call.op = "eval_grad") =>
                    AdjointTracesReady(TokenOf(r.value))
              /\ eop' = [eop EXCEPT ![w] = call]
              /\ epc' = [epc EXCEPT ![w] = IF r.raised = "none" THEN 1 ELSE 0]
              /\ elog' = [elog EXCEPT ![w] = <<>>]
    /\ UNCHANGED <<DENSITY, srcfiles, convVars, setupVars, postVars, storeVars>>

\* The worker runs the next statement of its call.
EvalStep(w) ==
    /\ epc[w] > 0
    /\ LET stmts == StepsOf(eop[w])
           stmt == stmts[epc[w]]
           tok == TokenOf(curname[w])
       IN  \E ok \in (IF stmt \in SolverCalls THEN BOOLEAN ELSE {TRUE}) :
           \E names_ \in (IF stmt = "adjoint"
                          THEN {parameters,
                                [k \in 1 .. Len(parameters) |-> AliasOf(parameters[k])]}
                          ELSE {parameters}) :
           \E r \in {exec(stmt, [dirs |-> dirs, files |-> files], w, tok,
                          eop[w].op, ok, names_)} :
              /\ dirs' = r.fs.dirs
              /\ files' = r.fs.files
              /\ elog' = [elog EXCEPT ![w] = Append(@, stmt)]
              /\ epc' = [epc EXCEPT ![w] =
                           IF r.raised # "none" \/ epc[w] = Len(stmts) THEN 0
                           ELSE epc[w] + 1]
              /\ wstatus' = [wstatus EXCEPT ![w] =
                               IF r.raised = "none" THEN @ ELSE r.raised]
    /\ UNCHANGED <<DENSITY, srcfiles, hasNames, names, globstar, curname, stdout,
                   fromCache, convVars, setupVars, storeVars, manifest, last,
                   nops, eop, nevals>>

\* combine(G/kernels), when no worker is inside a call and every worker has
\* exported kernels there.
EvalCombine ==
    /\ \A w \in Workers : epc[w] = 0
    /\ \A w \in Workers :
          /\ wstatus[w] = "running"
          /\ hasNames[w]
          /\ pjoin(KernelRoot(GRAD), <<TokenOf(curname[w])>>) \in dirs
    /\ nops = 0
    /\ \E exits \in ExitCodes(parameters) :
          \E r \in {combine([dirs |-> dirs, files |-> files], KernelRoot(GRAD),
                            parameters, exits)} :
              /\ r.feasible
              /\ nops' = nops + 1
              /\ dirs' = r.fs.dirs
              /\ files' = r.fs.files
              /\ manifest' = r.manifest
              /\ last' = [op |-> "combine", path |-> KernelRoot(GRAD),
                          args |-> <<>>, calls |-> r.calls,
                          raised |-> r.raised, after |-> r.after]
    /\ UNCHANGED <<DENSITY, convVars, srcVars, setupVars, storeVars, evalVars>>

NextEval ==
    \/ \E w \in Workers : EvalStart(w)
    \/ \E w \in Workers : EvalStep(w)
    \/ EvalCombine

SpecEval == InitEval /\ [][NextEval]_vars

(***************************************************************************)
(*                              The claims                                 *)
(***************************************************************************)

\* C1: for a model whose arrays all have the same length, split(merge(m))
\* returns a model equal to m: the same parameters, NPROC arrays for each
\* and the same values in the same order in each array.
C1_SplitMergeRoundTrip ==
    (cpc = "split" /\ Uniform(model)) =>
        /\ splitOut.raised = "none"
        /\ DOMAIN splitOut.model = Keys(parameters)
        /\ \A key \in Keys(parameters) :
              /\ Len(splitOut.model[key]) = NPROC
              /\ \A iproc \in Procs :
                    splitOut.model[key][iproc + 1] = model[key][iproc + 1]

\* A uniform model with more than one value per array went through merge and
\* split.
C1_Witness ==
    /\ cpc = "split"
    /\ Uniform(model)
    /\ Len(model["vp"][1]) >= 2
    /\ splitOut.model = model

\* C2 (as claimed): split of a vector whose length is no multiple of
\* NPROC x (number of parameters) ends in an error.
C2_SplitFailsOnInexactLength ==
    (cpc = "split" /\ Len(v) % (NPROC * Len(parameters)) # 0) =>
        splitOut.raised # "none"

\* The paths the glob returns for the files EVENT_A, EVENT_B and EVENT_C.
GlobABC ==
    {join(SPECFEM_DATA, EVENT_A), join(SPECFEM_DATA, EVENT_B),
     join(SPECFEM_DATA, EVENT_C)}

\* C7 (as claimed): the resolved names are the names of the source files;
\* for the files EVENT_B, EVENT_A, EVENT_C they are EVENT_A, EVENT_B,
\* EVENT_C and worker 0 gets EVENT_A.
C7_NamesAreFileNames ==
    \A w \in Workers :
        (hasNames[w] /\ globstar[w] = GlobABC) =>
            /\ names[w] = <<EVENT_A, EVENT_B, EVENT_C>>
            /\ (w = 0 /\ wstatus[w] = "running") => curname[w] = EVENT_A

\* C7 (amended): the resolved names are the trailing tokens (the text after
\* the last underscore) of the files matching the wildcard, one for each
\* file, in ascending lexicographic order, and worker k gets the k-th of
\* them; for the files EVENT_B, EVENT_A, EVENT_C they are A, B, C and
\* worker 0 gets A.
C7_NamesAreSortedTokens ==
    \A w \in Workers :
        hasNames[w] =>
            /\ \A i \in 1 .. (Len(names[w]) - 1) :
                  LexLeq(names[w][i], names[w][i + 1])
            /\ Len(names[w]) = Cardinality(globstar[w])
            /\ { names[w][i] : i \in 1 .. Len(names[w]) } =
                  { AfterLast(p, 95) : p \in globstar[w] }
            /\ wstatus[w] = "running" => curname[w] = names[w][w + 1]
            /\ globstar[w] = GlobABC =>
                  /\ names[w] = <<NameA, NameB, NameC>>
                  /\ (w = 0 /\ wstatus[w] = "running") => curname[w] = NameA

\* Worker 0 resolved the files EVENT_A, EVENT_B, EVENT_C and got A; worker 1
\* resolved a listing in which the order of the files is not the order of
\* their tokens (EVENT_B before EVENT_B_AA, AA before B).
C7_Witness ==
    /\ hasNames[0] /\ globstar[0] = GlobABC /\ curname[0] = NameA
    /\ hasNames[1] /\ names[1] = <<NameAA, NameB>> /\ curname[1] = NameB

\* C8 (as claimed): when the source listing is empty, the resolution reports
\* the no-sources-found error and terminates the process.
C8_EmptyListingReportsAndExits ==
    \A w \in Workers :
        (wstatus[w] # "running" /\ ~hasNames[w]) =>
            /\ stdout[w] = <<"MsgSourceInputError">>
            /\ wstatus[w] = "exited"

\* The steps of setup that come after the choice of the data path.
LaterSteps ==
    {"generate_data", "generate_mesh", "initialize_adjoint_traces",
     "initialize_io_machinery", "savenpy"}

\* C9 (as claimed): with neither PATH.DATA nor PATH.MODEL_TRUE set, setup
\* fails with a missing-required-input error before data generation,
\* meshing, the adjoint traces or the seeding is attempted; otherwise the
\* archive is copied if PATH.DATA is set and data are generated if not.
C9_SetupFailsWithoutInputs ==
    \A w \in Workers :
        /\ (~PATH_DATA /\ ~PATH_MODEL_TRUE) =>
              /\ \A i \in 1 .. Len(steps[w]) : steps[w][i] \notin LaterSteps
              /\ spc[w] \in {"idle", "data", "failed"}
              /\ (spc[w] = "failed" /\ hasNames[w]) =>
                    wstatus[w] = "MissingRequiredInput"
        /\ (PATH_DATA /\ Len(steps[w]) >= 2) => steps[w][2] # "generate_data"
        /\ (~PATH_DATA /\ PATH_MODEL_TRUE /\ Len(steps[w]) >= 2) =>
              steps[w][2] = "generate_data"

\* C10: the seed file m_new is written only by the worker with index 0 and
\* only when it does not exist: a step that writes it or changes it starts
\* with the file absent and is worker 0's.
C10_SeedWrittenOnceByWorkerZero ==
    [][(seedWrites' # seedWrites \/ m_new' # m_new) =>
          /\ ~m_new.exists
          /\ m_new'.writer = 0
          /\ spc[0] = "save" /\ spc'[0] = "done"
          /\ seedWrites' = seedWrites + 1]_vars

\* Worker 0 wrote the seed in one run of setup and has finished a later run
\* that left it alone, while another worker has finished a run too.
C10_Witness ==
    /\ m_new.exists /\ m_new.writer = 0 /\ seedWrites = 1
    /\ spc[0] = "done" /\ "savenpy" \notin { steps[0][i] : i \in 1 .. Len(steps[0]) }
    /\ spc[1] = "done"

\* The invocations of the last call that ended with a status other than 0.
FailedCalls == { i \in 1 .. Len(last.calls) : last.calls[i].exit # 0 }

\* C3 (as claimed): if a tool invoked by combine, smooth or clip exits with
\* a status other than 0, the operation ends in a failure its caller sees
\* and does none of its remaining steps: no further invocation, no
\* relocation of the inputs, no renaming of the outputs.
C3_ToolFailurePropagates ==
    \A i \in FailedCalls :
        /\ last.raised # "none"
        /\ i = Len(last.calls)
        /\ last.after = <<>>

\* The kernel files of the directory path: proc<i>_<name>_kernel.bin.
KernelInputs(F, path) ==
    { e \in DOMAIN F :
        /\ e.dir = path
        /\ \E iproc \in Procs : \E k \in 1 .. Len(parameters) :
              e = KernelFile(path, iproc, parameters[k], <<>>) }

\* C4 (as claimed): after smooth(path, span) has run all its steps, every
\* kernel file that was in path is in path + '_nosmooth' with the content it
\* had, and path holds the smoothed file under the same name.
C4_SmoothKeepsInputs ==
    [][(/\ nops' = nops + 1
        /\ last'.op = "smooth"
        /\ last'.raised = "none"
        /\ \A i \in 1 .. Len(last'.calls) : last'.calls[i].exit = 0)
       =>
       \A e \in KernelInputs(files, SUM) :
           LET kept == [dir |-> SUM \o <<"_nosmooth">>, name |-> e.name]
           IN  /\ kept \in DOMAIN files'
               /\ files'[kept] = files[e]
               /\ e \in DOMAIN files'
               /\ files'[e] = [files[e] EXCEPT !.ops = Append(@, "smooth")]]_vars

\* C5 (as claimed): clip skips the tool only when both bounds are infinite;
\* with at least one finite bound it invokes the tool once for each
\* parameter with the bounds given, and then makes path + '_noclip' and
\* renames the outputs.
C5_ClipSkipsOnlyUnbounded ==
    (last.op = "clip" /\ last.raised = "none") =>
        IF last.args = <<"-inf", "inf">>
        THEN last.calls = <<>>
        ELSE /\ Len(last.calls) = Len(parameters)
             /\ \A k \in 1 .. Len(parameters) :
                   /\ last.calls[k].tool = "xclip_sem"
                   /\ last.calls[k].name = parameters[k]
                   /\ last.calls[k].args = last.args
             /\ last.after = <<"mkdir", "mv", "rename">>
             /\ (SUM \o <<"_noclip">>) \in dirs

\* C6: clip with minval = -inf and maxval = inf on a directory that exists
\* changes nothing: no tool is invoked, no file is moved, renamed or
\* rewritten, and no directory (path + '_noclip') is made.
C6_UnboundedClipIsNoOp ==
    [][(/\ nops' = nops + 1
        /\ last'.op = "clip"
        /\ last'.args = <<"-inf", "inf">>
        /\ last'.raised = "none")
       =>
       /\ files' = files
       /\ dirs' = dirs
       /\ manifest' = manifest
       /\ last'.calls = <<>>
       /\ last'.after = <<>>]_vars

\* clip(kernels/sum, -inf, inf) was called on the directory of summed
\* kernels, which holds them still and has no '_noclip' beside it.
C6_Witness ==
    /\ last.op = "clip" /\ last.args = <<"-inf", "inf">> /\ last.raised = "none"
    /\ SUM \in dirs
    /\ KernelInputs(files, SUM) # {}
    /\ (SUM \o <<"_noclip">>) \notin dirs

\* The number of values merge has put into the vector before it comes to the
\* array of processor iproc of the k-th parameter: the lengths of all the
\* arrays of the parameters before the k-th, and of the arrays of the k-th
\* parameter of the processors before iproc.
RECURSIVE LengthsBefore(_, _, _, _)
LengthsBefore(pars, m, k, iproc) ==
    IF k = 1 /\ iproc = 0 THEN 0
    ELSE IF iproc = 0
    THEN LengthsBefore(pars, m, k - 1, NPROC - 1) + Len(m[pars[k - 1]][NPROC])
    ELSE LengthsBefore(pars, m, k, iproc - 1) + Len(m[pars[k]][iproc])

\* C20: merge(model) is the concatenation, parameter by parameter in the
\* order of the parameter list and within a parameter processor by processor,
\* of the arrays: its length is the sum of the lengths of all arrays, and the
\* i-th value of processor iproc's array of the k-th parameter is at the
\* position that the lengths of the arrays before it give, whether or not the
\* arrays have one length.
C20_MergeIsOrderedConcatenation ==
    cpc # "start" =>
        /\ Len(v) = LengthsBefore(parameters, model, Len(parameters), NPROC - 1)
                      + Len(model[parameters[Len(parameters)]][NPROC])
        /\ \A k \in 1 .. Len(parameters) : \A iproc \in Procs :
              \A i \in 1 .. Len(model[parameters[k]][iproc + 1]) :
                  /\ v[LengthsBefore(parameters, model, k, iproc) + i] =
                        model[parameters[k]][iproc + 1][i]
                  /\ v[LengthsBefore(parameters, model, k, iproc) + i] =
                        ValueAt(k, iproc, i)

\* merge was applied to a model whose arrays differ in length between the
\* processors and between the parameters.
C20_Witness ==
    /\ cpc = "merged"
    /\ Len(model["vp"][1]) = MaxPts /\ Len(model["vp"][2]) = 0
    /\ Len(model["vs"][1]) = 1 /\ Len(model["vs"][2]) = MaxPts
    /\ Len(v) = 2 * MaxPts + 1

\* C19: within one worker process the source names are resolved at most
\* once: once self.names is set it stays set and is never modified, the
\* directory is not listed again, and every later self.getname returns the
\* name it returned before, and so getpath the same working directory,
\* whatever files were added to or removed from the source directory.
C19_ResolvedOnceThenCached ==
    [][\A w \in Workers :
          hasNames[w] =>
              /\ hasNames'[w]
              /\ names'[w] = names[w]
              /\ globstar'[w] = globstar[w]
              /\ (wstatus[w] = "running" /\ wstatus'[w] = "running") =>
                    /\ curname'[w] = curname[w]
                    /\ getpath(curname'[w]) = getpath(curname[w])
                    /\ curname'[w] = names[w][w + 1]]_vars

\* Worker 0, the only one that has resolved the names, resolved the listing
\* EVENT_A, EVENT_B, EVENT_C and got A; the directory no longer holds
\* EVENT_A, and the worker's last self.getname, made with the names cached,
\* returned A again.
C19_Witness ==
    /\ hasNames[0] /\ fromCache /\ wstatus[0] = "running"
    /\ \A w \in Workers \ {0} : ~hasNames[w]
    /\ globstar[0] = GlobABC
    /\ EVENT_A \notin srcfiles
    /\ curname[0] = NameA

\* C17 (as claimed): whatever calls of combine, smooth and clip were made on
\* the kernel root, the manifest combine wrote lists only the directories
\* of the sources: 'sum', 'sum_nosmooth' and 'sum_noclip' are not in it.
C17_ManifestListsOnlySources ==
    /\ manifest \subseteq { pjoin(KERNELS, <<s>>) : s \in PostSources }
    /\ SUM \notin manifest
    /\ (SUM \o <<"_nosmooth">>) \notin manifest
    /\ (SUM \o <<"_noclip">>) \notin manifest

\* C12: save writes a parameter among vp, vs, rho from the dictionary if and
\* only if it is in self.parameters, and never reads the dictionary for a
\* parameter outside it; a parameter outside it is copied from the
\* reference model. With self.parameters = ['vp'], for every processor vp is
\* the dictionary's array and vs and rho are the reference model's.
C12_SaveWritesActiveCopiesOthers ==
    stpc # "start" =>
        /\ \A t \in saved.reads : t[1] \in Keys(spars)
        /\ \A t \in saved.copied : t[1] \notin Keys(spars)
        /\ saved.raised = "none" =>
              \A iproc \in Procs : \A key \in Keys(SaveKeys) :
                  IF key \in Keys(spars)
                  THEN /\ <<key, iproc>> \in saved.reads
                       /\ \E e \in FilesIn([files |-> files], STORE_PATH) :
                             /\ e = BinFile(STORE_PATH, iproc,
                                            ParName(sargs.prefix, key, sargs.suffix))
                             /\ files[e] = smodel[key][iproc + 1]
                  ELSE /\ <<key, iproc>> \in saved.copied
                       /\ \E e \in FilesIn([files |-> files], STORE_PATH) :
                             /\ e.name[1] = ProcTok(iproc)
                             /\ Holds(e.name, key)
                             /\ files[e] = RefArray(key, iproc)
                       /\ \A e \in FilesIn([files |-> files], STORE_PATH) :
                             files[e] # smodel[key][iproc + 1]

\* A solver with self.parameters = ['vp'] saved a model: vs and rho of every
\* processor were copied and only vp was read from the dictionary.
C12_Witness ==
    /\ stpc = "saved" /\ saved.raised = "none"
    /\ spars = <<"vp">>
    /\ saved.reads = {"vp"} \X Procs
    /\ saved.copied = {"vs", "rho"} \X Procs
    /\ files[BinFile(STORE_PATH, 0, <<"vs">>)] = RefArray("vs", 0)

\* C18 (as claimed): after save(path, model, prefix, suffix) the directory
\* holds, for every processor, a file of vp, of vs and of rho named with the
\* prefix and the suffix around the name of the parameter, written or
\* copied; and load with the same prefix and suffix finds every file of the
\* model saved.
C18_SavedFilesCarryPrefixAndSuffix ==
    (stpc # "start" /\ saved.raised = "none") =>
        /\ \A iproc \in Procs : \A key \in Keys(SaveKeys) :
              BinFile(STORE_PATH, iproc, ParName(sargs.prefix, key, sargs.suffix))
                  \in DOMAIN files
        /\ stpc = "loaded" =>
              /\ loaded.raised = "none"
              /\ loaded.model = [key \in Keys(spars) |-> smodel[key]]

\* The sources are A and B, each of the two workers has run eval_func and
\* then eval_grad, and combine has been called on G/kernels.
C11_EvaluatedBothSources ==
    /\ srcfiles = {EVENT_A, EVENT_B}
    /\ parameters = <<"vp", "vs">>
    /\ \A w \in Workers : eop[w].op = "eval_grad" /\ epc[w] = 0
    /\ last.op = "combine"

\* C11: with the two sources A and B and the parameters vp and vs, once
\* each of the two workers has run eval_func and then eval_grad, combine on
\* G/kernels writes a manifest of exactly the two directories G/kernels/A
\* and G/kernels/B, makes G/kernels/sum and runs xcombine_sem once for each
\* parameter, in the order of the parameters; each run that succeeds leaves
\* in G/kernels/sum, for every processor, the sum of the kernels of exactly
\* the two sources.
C11_CombineSumsEachSourceOnce ==
    C11_EvaluatedBothSources =>
        /\ manifest = {<<"G", "/", "kernels", "/", "A">>,
                       <<"G", "/", "kernels", "/", "B">>}
        /\ <<"G", "/", "kernels", "/", "sum">> \in dirs
        /\ last.raised = "none"
        /\ Len(last.calls) = 2
        /\ \A k \in 1 .. 2 :
              /\ last.calls[k].tool = "xcombine_sem"
              /\ last.calls[k].name = parameters[k]
              /\ last.calls[k].dir = <<"G", "/", "kernels">>
              /\ last.calls[k].exit = 0 =>
                    \A iproc \in Procs :
                        LET q == KernelFile(<<"G", "/", "kernels", "/", "sum">>,
                                            iproc, parameters[k], <<>>)
                        IN  /\ q \in DOMAIN files
                            /\ files[q].srcs = {"A", "B"}
                            /\ files[q].par = parameters[k]

\* Both workers evaluated their sources and both runs of xcombine_sem
\* succeeded.
C11_Witness ==
    /\ C11_EvaluatedBothSources
    /\ \A k \in 1 .. 2 : last.calls[k].exit = 0
    /\ \A w \in Workers : wstatus[w] = "running"

\* The worker runs export_kernels as a statement of eval_grad.
C13_ExportsKernels(w) ==
    /\ eop[w].op = "eval_grad"
    /\ epc[w] > 0
    /\ elog'[w] = Append(elog[w], "export_kernels")

\* C13: when eval_grad has run export_kernels, whether the adjoint solver
\* named its kernel files with its aliases or with the names of the
\* parameters, nothing was raised, no kernel file is left in the model
\* database, G/kernels/<name> holds the kernel file of every parameter and
\* processor under the name of the parameter, and no file there carries
\* 'alpha' or 'beta'.
C13_KernelsExportedUnderCanonicalNames ==
    [][\A w \in Workers :
          C13_ExportsKernels(w) =>
              LET tok == TokenOf(curname[w])
                  out == <<"G", "/", "kernels", "/", tok>>
                  after == [dirs |-> dirs', files |-> files']
              IN  /\ wstatus'[w] = "running"
                  /\ glob_kernels(after, model_databases(tok)) = {}
                  /\ \A k \in 1 .. Len(parameters) : \A iproc \in Procs :
                        LET q == KernelFile(out, iproc, parameters[k], <<>>)
                        IN  q \in DOMAIN files' /\ files'[q].par = parameters[k]
                  /\ \A e \in FilesIn(after, out) :
                        ~Holds(e.name, "alpha") /\ ~Holds(e.name, "beta")]_vars

\* A worker has run the export_kernels of eval_grad and the kernels of its
\* source are in G/kernels/<name>.
C13_Witness ==
    \E w \in Workers :
        /\ eop[w].op = "eval_grad"
        /\ Len(elog[w]) >= 2
        /\ elog[w][2] = "export_kernels"
        /\ wstatus[w] = "running"
        /\ \A k \in 1 .. Len(parameters) : \A iproc \in Procs :
              KernelFile(<<"G", "/", "kernels", "/", TokenOf(curname[w])>>,
                         iproc, parameters[k], <<>>) \in DOMAIN files

\* The statements eval_func has run so far are the first ones of: import the
\* model, run the forward solver, move the synthetic traces to traces/syn,
\* prepare residuals and adjoint sources, export the residuals and, with
\* export_traces, export the synthetic traces.
C14_InOrder(log, export) ==
    LET order == <<"import_model", "forward", "mv_syn", "prepare_eval_grad",
                   "export_residuals", "export_traces_syn">>
    IN  /\ Len(log) <= (IF export THEN 6 ELSE 5)
        /\ \A k \in 1 .. Len(log) : log[k] = order[k]

\* C14: in every call of eval_func, at every moment, the statements run so
\* far are, in this order, the import of the model, the forward solver, the
\* move of the synthetic traces to traces/syn, preprocess.prepare_eval_grad,
\* the export of the residuals and, last and only if export_traces is set,
\* the export of the synthetic traces; the call ends without raising only
\* when all of them have run.
C14_EvalFuncStepsInOrder ==
    \A w \in Workers :
        eop[w].op = "eval_func" =>
            /\ C14_InOrder(elog[w], eop[w].export_traces)
            /\ epc[w] > 0 => epc[w] = Len(elog[w]) + 1
            /\ (epc[w] = 0 /\ wstatus[w] = "running" /\ hasNames[w]) =>
                  Len(elog[w]) = (IF eop[w].export_traces THEN 6 ELSE 5)

\* A call of eval_func with export_traces set has run all six statements,
\* and the synthetic traces are in G/traces/<name>.
C14_Witness ==
    \E w \in Workers :
        /\ eop[w].op = "eval_func"
        /\ eop[w].export_traces
        /\ epc[w] = 0
        /\ Len(elog[w]) = 6
        /\ elog[w][6] = "export_traces_syn"
        /\ \E e \in DOMAIN files :
              e.dir = <<"G", "/", "traces", "/", TokenOf(curname[w])>>

\* The files of a directory, with what they hold.
C15_Content(fl, dir) ==
    [e \in { q \in DOMAIN fl : q.dir = dir } |-> fl[e]]

\* C15: no statement of apply_hess changes traces/syn in the working
\* directory of the worker that runs it: the same files are there, holding
\* what they held; and the statement that moves the traces of the forward
\* pass leaves them in traces/lcg and nowhere else.
C15_ApplyHessKeepsSyntheticTraces ==
    [][\A w \in Workers :
          (eop[w].op = "apply_hess" /\ epc[w] > 0 /\ elog'[w] # elog[w]) =>
              LET tok == TokenOf(curname[w])
                  moved == elog'[w][Len(elog'[w])] \in {"mv_syn", "mv_lcg"}
              IN  /\ C15_Content(files', TracesDir(tok, "syn"))
                       = C15_Content(files, TracesDir(tok, "syn"))
                  /\ moved =>
                        /\ \A e \in DOMAIN files :
                              e.dir = OutputFiles(tok) =>
                                 /\ e \notin DOMAIN files'
                                 /\ [dir |-> TracesDir(tok, "lcg"), name |-> e.name]
                                       \in DOMAIN files'
                                 /\ files'[[dir |-> TracesDir(tok, "lcg"),
                                            name |-> e.name]] = files[e]]_vars

\* A worker has run apply_hess to its end: traces/lcg holds the traces of
\* its forward pass and traces/syn those of eval_func.
C15_Witness ==
    \E w \in Workers :
        /\ eop[w].op = "apply_hess"
        /\ epc[w] = 0
        /\ Len(elog[w]) = 7
        /\ wstatus[w] = "running"
        /\ \E e \in DOMAIN files :
              e.dir = TracesDir(TokenOf(curname[w]), "lcg")
              /\ files[e].op = "apply_hess"
        /\ \E e \in DOMAIN files :
              e.dir = TracesDir(TokenOf(curname[w]), "syn")
              /\ files[e].op = "eval_func"

\* The files the solver and preprocess wrote hold the worker that wrote
\* them; the files of a model hold arrays.
C16_IsModelFile(e) ==
    EndsWith(e.name, <<".bin">>) /\ ~EndsWith(e.name, <<"_kernel", ".bin">>)

\* C16 (as claimed): the workers that have resolved their source have
\* pairwise distinct source names, hence distinct working directories and
\* distinct directories G/residuals/<name>, G/kernels/<name> and
\* G/traces/<name>; and no statement of eval_func, eval_grad or apply_hess
\* run by a worker rewrites, moves or removes a file another worker wrote.
C16_WorkersNeverShareAPath ==
    [][/\ \A w1, w2 \in Workers :
            (w1 # w2 /\ hasNames'[w1] /\ hasNames'[w2]
             /\ wstatus'[w1] = "running" /\ wstatus'[w2] = "running") =>
                /\ curname'[w1] # curname'[w2]
                /\ WorkDir(TokenOf(curname'[w1])) # WorkDir(TokenOf(curname'[w2]))
       /\ \A w \in Workers :
            (epc[w] > 0 /\ elog'[w] # elog[w]) =>
                \A e \in Written([dirs |-> dirs, files |-> files],
                                 [dirs |-> dirs', files |-> files']) :
                    (e \in DOMAIN files /\ ~C16_IsModelFile(e)) =>
                        files[e].by = w]_vars

====
